---- MODULE Spec2Model ----
(***************************************************************************)
(* A model of thriftpy/thrift.py: the client dispatcher (TClient), the     *)
(* server dispatcher (TProcessor), the payload helpers and the             *)
(* application exception.  One client and one processor are joined by two  *)
(* message streams; a peer stands for any other party that can write on    *)
(* either stream (another client, another server implementation).          *)
(***************************************************************************)
EXTENDS Integers, Sequences, FiniteSets, TLC

(* ---------------------------------------------------------------- bounds *)
MaxCalls == 2        \* calls issued by the client
MaxPeerCalls == 1    \* messages a peer writes on the processor's input
MaxArgs == 3         \* positional arguments of one client call
MaxPeerSeqid == 1    \* sequence ids a peer uses are 0..MaxPeerSeqid
MaxCode == 8         \* exception codes given to __str__ are -1..MaxCode
MaxDepth == 3        \* nested calls the interpreter allows before RuntimeError

(* ---------------------------------------------------- TMessageType codes *)
CALL == 1
REPLY == 2
EXCEPTION == 3
ONEWAY == 4
TMessageType == {CALL, REPLY, EXCEPTION, ONEWAY}

(* ------------------------------------------- TApplicationException codes *)
UNKNOWN == 0
UNKNOWN_METHOD == 1
INVALID_MESSAGE_TYPE == 2
WRONG_METHOD_NAME == 3
BAD_SEQUENCE_ID == 4
MISSING_RESULT == 5
INTERNAL_ERROR == 6
PROTOCOL_ERROR == 7

(* ---------------------------------------------------------------- values *)
\* Every value carried in a field is a record [kind, data].  None is the
\* absent marker of Python; I32(0) and EmptyList are falsy but not None.
None == [kind |-> "None", data |-> 0]
I32(n) == [kind |-> "i32", data |-> n]
Str(n) == [kind |-> "string", data |-> n]
EmptyList == [kind |-> "list", data |-> 0]
Exc(k, d) == [kind |-> k, data |-> d]

\* The texts the model's strings stand for: Str(0) is the empty string.
StrText(n) == IF n = 0 THEN "" ELSE "boom"

\* Exception kinds and the classes each kind is an instance of: E12 is a
\* subclass of both E1 and E2, ValueError is declared by no method.
ExcKinds == {"E1", "E2", "E12", "ValueError"}
Bases(k) ==
    CASE k = "E1" -> {"E1"}
      [] k = "E2" -> {"E2"}
      [] k = "E12" -> {"E12", "E1", "E2"}
      [] OTHER -> {k}
isinstance(e, cls) == cls \in Bases(e.kind)

(* --------------------------------------------------- service description *)
\* A thrift_spec maps a field id to the field's name and, for a declared
\* exception slot, the exception class.
F(name, cls) == [name |-> name, cls |-> cls]
EmptySpec == [f \in {} |-> F("", "")]

ServerMethods == {"ping", "add", "div", "put", "del"}
ClientMethods == ServerMethods \cup {"extra"}
ApiNames == ClientMethods \cup {"nope"}

args_spec(api) ==
    IF api = "add" THEN (1 :> F("a", "") @@ 2 :> F("b", "")) ELSE EmptySpec

result_spec(api) ==
    CASE api = "ping" -> EmptySpec
      [] api = "add" -> (0 :> F("success", ""))
      [] api = "extra" -> (0 :> F("success", ""))
      [] api = "div" -> (0 :> F("success", "") @@ 1 :> F("e1", "E1")
                           @@ 2 :> F("e2", "E2"))
      [] api = "put" -> (1 :> F("e1", "E1") @@ 2 :> F("e2", "E2"))
      [] api = "del" -> (1 :> F("e1", "E1"))
      [] OTHER -> EmptySpec

AppExcSpec == (1 :> F("message", "") @@ 2 :> F("type", ""))

Cls(api, part) == [api |-> api, part |-> part]
AppExcCls == Cls("", "TApplicationException")

(* -------------------------------------------------------------- payloads *)
\* A payload instance is its class and its __dict__ (name -> value).
thrift_spec(obj) ==
    CASE obj.cls.part = "args" -> args_spec(obj.cls.api)
      [] obj.cls.part = "result" -> result_spec(obj.cls.api)
      [] OTHER -> AppExcSpec

Names(spec) == {spec[f].name : f \in DOMAIN spec}

\* The generated constructor: every field of the schema starts absent.
TPayload_init(cls, spec) == [cls |-> cls, dict |-> [n \in Names(spec) |-> None]]

hasattr(obj, k) == k \in DOMAIN obj.dict
setattr(obj, k, v) ==
    [obj EXCEPT !.dict = [n \in DOMAIN obj.dict \cup {k} |->
                             IF n = k THEN v ELSE obj.dict[n]]]

\* dict.update: entries of kw replace entries of d.
update(d, kw) ==
    [n \in DOMAIN d \cup DOMAIN kw |-> IF n \in DOMAIN kw THEN kw[n] ELSE d[n]]

\* The codec: write emits the schema's fields that are set (field id ->
\* value); read stores the fields of the schema found on the wire and skips
\* the others.  A value read into a declared exception slot is an instance
\* of the slot's class.
write_struct(obj) ==
    LET spec == thrift_spec(obj)
        set == {f \in DOMAIN spec : /\ hasattr(obj, spec[f].name)
                                    /\ obj.dict[spec[f].name] # None}
    IN  [f \in set |-> obj.dict[spec[f].name]]

decode(fs, v) == IF fs.cls # "" THEN [v EXCEPT !.kind = fs.cls] ELSE v

read_struct(obj, wire) ==
    LET spec == thrift_spec(obj)
        known == DOMAIN wire \cap DOMAIN spec
        fid(n) == CHOOSE f \in known : spec[f].name = n
    IN  [obj EXCEPT !.dict =
            [n \in DOMAIN obj.dict \cup {spec[f].name : f \in known} |->
                IF \E f \in known : spec[f].name = n
                THEN decode(spec[fid(n)], wire[fid(n)])
                ELSE obj.dict[n]]]

Message(name, mtype, sid, payload) ==
    [name |-> name, mtype |-> mtype, seqid |-> sid, payload |-> payload]

(* ------------------------------------------------ TPayload comparisons *)
\* __eq__: other is an instance of the class of self and the two instance
\* dictionaries are equal.  A value that is no payload has no class record.
TPayload_eq(self, other) ==
    /\ "cls" \in DOMAIN other /\ other.cls = self.cls
    /\ self.dict = other.dict

\* __ne__: the method its body, self != other, invokes on self.
TPayload_ne_calls(self, other) == "__ne__"

(* ------------------------------------------------- TApplicationException *)
TApplicationException(type, message) ==
    [cls |-> AppExcCls, dict |-> [type |-> I32(type), message |-> message]]

\* isinstance(x, TApplicationException); a field value has no class record.
IsAppExc(obj) == "cls" \in DOMAIN obj /\ obj.cls = AppExcCls

\* __str__ without the branch of MISSING_RESULT.
TApplicationException_str_short(x) ==
    IF x.dict.message # None /\ x.dict.message # Str(0)
    THEN StrText(x.dict.message.data)
    ELSE CASE x.dict.type = I32(UNKNOWN_METHOD) -> "Unknown method"
           [] x.dict.type = I32(INVALID_MESSAGE_TYPE) -> "Invalid message type"
           [] x.dict.type = I32(WRONG_METHOD_NAME) -> "Wrong method name"
           [] x.dict.type = I32(BAD_SEQUENCE_ID) -> "Bad sequence ID"
           [] OTHER -> "Default (unknown) TApplicationException"

TApplicationException_str(x) ==
    IF x.dict.message # None /\ x.dict.message # Str(0)
    THEN StrText(x.dict.message.data)
    ELSE CASE x.dict.type = I32(UNKNOWN_METHOD) -> "Unknown method"
           [] x.dict.type = I32(INVALID_MESSAGE_TYPE) -> "Invalid message type"
           [] x.dict.type = I32(WRONG_METHOD_NAME) -> "Wrong method name"
           [] x.dict.type = I32(BAD_SEQUENCE_ID) -> "Bad sequence ID"
           [] x.dict.type = I32(MISSING_RESULT) -> "Missing result"
           [] OTHER -> "Default (unknown) TApplicationException"

(* ------------------------------------------------------------- sorting *)
RECURSIVE SortKeys(_)
SortKeys(S) ==
    IF S = {} THEN << >>
    ELSE LET m == CHOOSE x \in S : \A y \in S : x <= y
         IN  <<m>> \o SortKeys(S \ {m})
sorted(spec) == SortKeys(DOMAIN spec)
Min(S) == CHOOSE x \in S : \A y \in S : x <= y

(* ------------------------------------------------------------ args2kwargs *)
\* arg_names are the field names in ascending field id order; zip stops at
\* the shorter of the names and the positional arguments.
args2kwargs(spec, args) ==
    LET ks == sorted(spec)
        n == IF Len(ks) < Len(args) THEN Len(ks) ELSE Len(args)
        pos(nm) == CHOOSE i \in 1..n : spec[ks[i]].name = nm
    IN  [nm \in {spec[ks[i]].name : i \in 1..n} |-> args[pos(nm)]]

(* ---------------------------------------------------------------- TClient *)
\* __getattr__ and the service lookups of _req: a name outside the client's
\* service description is an AttributeError before anything is written.
TClient_getattr(api) == api \in ClientMethods

\* kwargs.update(_kw) of _req: the values bound positionally replace the
\* named ones.
_req_kwargs(api, args, kwargs) == update(kwargs, args2kwargs(args_spec(api), args))

\* _send: the CALL message written for the bound arguments.
_send(api, kwargs, sid) ==
    LET args == TPayload_init(Cls(api, "args"), args_spec(api))
        filled == [args EXCEPT !.dict = update(args.dict, kwargs)]
    IN  Message(api, CALL, sid, write_struct(filled))

\* _send without the flush of the transport.
SendOps_noflush == <<"write_message_begin", "write_struct", "write_message_end">>
SendOps == <<"write_message_begin", "write_struct", "write_message_end", "flush">>
RecvOps == <<"read_message_begin", "read_struct", "read_message_end">>

Outcome(tag, val) == [tag |-> tag, val |-> val]

\* The application exception decoded from an EXCEPTION message.
read_exception(wire) ==
    LET x == TApplicationException(UNKNOWN, None)
    IN  read_struct(x, wire)

\* Python truth of a value: None, 0 and the empty containers are false.
Truthy(v) == v \notin {None, I32(0), EmptyList, Str(0)}

\* The tests of _recv, one definition per condition of the code.
is_exception_never(mtype) == FALSE
is_exception(mtype) == mtype = EXCEPTION

success_truthy(result) == hasattr(result, "success") /\ Truthy(result.dict["success"])
success_present(result) == hasattr(result, "success") /\ result.dict["success"] # None

is_void(result) == Cardinality(DOMAIN thrift_spec(result)) = 0

throws_present(result) ==
    {k \in DOMAIN result.dict : k # "success" /\ result.dict[k] # None}

missing_never(result) == FALSE
missing_result(result) == hasattr(result, "success")

\* _recv: the set of outcomes the call can end with for this reply.  The
\* scan of result.__dict__ follows the dictionary's order, which the field
\* ids do not fix: every present exception slot can be the one raised.
_recv(api, msg) ==
    IF is_exception(msg.mtype)
    THEN {Outcome("raise", read_exception(msg.payload))}
    ELSE LET result == read_struct(TPayload_init(Cls(api, "result"), result_spec(api)),
                                   msg.payload)
         IN  IF success_present(result)
             THEN {Outcome("return", result.dict["success"])}
             ELSE IF is_void(result)
             THEN {Outcome("return", None)}
             ELSE IF throws_present(result) # {}
             THEN {Outcome("raise", result.dict[k]) : k \in throws_present(result)}
             ELSE IF missing_result(result)
             THEN {Outcome("raise", TApplicationException(MISSING_RESULT, None))}
             ELSE {Outcome("return", None)}

(* ------------------------------------------------------------- TProcessor *)
\* The result process_in prepares for a method the service does not have.
unknown_method_unknown == TApplicationException(UNKNOWN, None)
unknown_method == TApplicationException(UNKNOWN_METHOD, None)

process_in(msg) ==
    IF msg.name \notin ServerMethods
    THEN [api |-> msg.name, seqid |-> msg.seqid,
          result |-> unknown_method,
          call |-> FALSE, args |-> << >>,
          ops |-> <<"read_message_begin", "skip", "read_message_end">>]
    ELSE [api |-> msg.name, seqid |-> msg.seqid,
          result |-> TPayload_init(Cls(msg.name, "result"), result_spec(msg.name)),
          call |-> TRUE,
          args |-> read_struct(TPayload_init(Cls(msg.name, "args"),
                                             args_spec(msg.name)), msg.payload).dict,
          ops |-> RecvOps]

\* send_exception with a sequence id of its own instead of the caller's.
send_exception_seqid0(api, exc, sid) == Message(api, EXCEPTION, 0, write_struct(exc))
send_exception(api, exc, sid) == Message(api, EXCEPTION, sid, write_struct(exc))

send_result_as_exception(api, result, sid) ==
    Message(api, EXCEPTION, sid, write_struct(result))
send_result(api, result, sid) == Message(api, REPLY, sid, write_struct(result))

\* sorted(result.thrift_spec)[1:]
CandidateSlots(spec) == IF Len(sorted(spec)) = 0 THEN << >> ELSE Tail(sorted(spec))

\* handle_exception without the else of its for loop.
handle_exception_noelse(e, result) ==
    LET spec == thrift_spec(result)
        ks == CandidateSlots(spec)
        hits == {i \in 1..Len(ks) : isinstance(e, spec[ks[i]].cls)}
    IN  IF Cardinality(DOMAIN spec) = 1
        THEN [raised |-> TRUE, result |-> result]
        ELSE IF hits = {}
        THEN [raised |-> FALSE, result |-> result]
        ELSE [raised |-> FALSE,
              result |-> setattr(result, spec[ks[Min(hits)]].name, e)]

\* handle_exception without the break of its for loop: every matching slot
\* is set.
RECURSIVE SetAll(_, _, _, _)
SetAll(result, spec, slots, e) ==
    IF slots = {} THEN result
    ELSE LET f == Min(slots)
         IN  SetAll(setattr(result, spec[f].name, e), spec, slots \ {f}, e)

handle_exception_nobreak(e, result) ==
    LET spec == thrift_spec(result)
        ks == CandidateSlots(spec)
        hits == {i \in 1..Len(ks) : isinstance(e, spec[ks[i]].cls)}
    IN  IF Cardinality(DOMAIN spec) = 1
        THEN [raised |-> TRUE, result |-> result]
        ELSE IF hits = {}
        THEN [raised |-> TRUE, result |-> result]
        ELSE [raised |-> FALSE,
              result |-> SetAll(result, spec, {ks[i] : i \in hits}, e)]

handle_exception(e, result) ==
    LET spec == thrift_spec(result)
        ks == CandidateSlots(spec)
        hits == {i \in 1..Len(ks) : isinstance(e, spec[ks[i]].cls)}
    IN  IF Cardinality(DOMAIN spec) = 1
        THEN [raised |-> TRUE, result |-> result]
        ELSE IF hits = {}
        THEN [raised |-> TRUE, result |-> result]
        ELSE [raised |-> FALSE,
              result |-> setattr(result, spec[ks[Min(hits)]].name, e)]

\* process: what one invocation does with the inbound message msg when the
\* handler, if it is called, ends with the outcome h.
ProcResult(msg, called, h, args, written, raised, ops) ==
    [done |-> TRUE, msg |-> msg, called |-> called, h |-> h, args |-> args,
     written |-> written, raised |-> raised, ops |-> ops]

\* What process has written when handle_exception re-raises: the raise
\* leaves process before send_result.
process_reraise_sends(api, result, sid) == <<send_result(api, result, sid)>>
process_reraise(api, result, sid) == << >>

\* The attributes of the instance after process: neither process nor the
\* methods it calls assign an attribute of self.
process_self_keeps_api(self, msg, h) == [self EXCEPT !._handler = msg.name]
process_self(self, msg, h) == self

process(msg, h) ==
    LET pin == process_in(msg)
    IN  IF IsAppExc(pin.result)
        THEN ProcResult(msg, FALSE, Outcome("none", None), pin.args,
                        <<send_exception(pin.api, pin.result, pin.seqid)>>, FALSE,
                        pin.ops \o SendOps)
        ELSE IF h.tag = "return"
        THEN ProcResult(msg, TRUE, h, pin.args,
                        <<send_result(pin.api, setattr(pin.result, "success", h.val),
                                      pin.seqid)>>, FALSE,
                        pin.ops \o <<"call">> \o SendOps)
        ELSE LET he == handle_exception(h.val, pin.result)
             IN  IF he.raised
                 THEN ProcResult(msg, TRUE, h, pin.args,
                                 process_reraise(pin.api, he.result, pin.seqid),
                                 TRUE, pin.ops \o <<"call">>)
                 ELSE ProcResult(msg, TRUE, h, pin.args,
                                 <<send_result(pin.api, he.result, pin.seqid)>>, FALSE,
                                 pin.ops \o <<"call">> \o SendOps)

(* ------------------------------------------------------------------ state *)
VARIABLES
    seqid,        \* TClient._seqid
    cpc,          \* the client's position: "idle", or "sent" (blocked in _recv)
    ncalls,       \* calls the client has issued
    callSeqids,   \* the sequence ids of the CALL envelopes the client wrote
    creq,         \* the call in progress: method name and arguments
    cres,         \* how the call ended
    cops,         \* the stream operations of the call in progress, in order
    wire_cs,      \* the stream from the client to the processor
    wire_sc,      \* the stream from the processor to the client
    plast,        \* what process did with the current round's message
    nread,        \* inbound messages the processor has read
    nwritten,     \* outbound messages the processor has written
    npeer,        \* messages the peer has written on the processor's input
    pself,        \* the attributes of the TProcessor instance
    fin,          \* the method under evaluation and its operands
    fout          \* the progress and the result of that evaluation

vars == <<seqid, cpc, ncalls, callSeqids, creq, cres, cops, wire_cs, wire_sc,
          plast, nread, nwritten, npeer, pself, fin, fout>>

EmptyDict == [n \in {} |-> None]
NoMsg == Message("", CALL, 0, EmptyDict)
NoReq == [api |-> "", args |-> << >>, kwargs |-> EmptyDict, sent |-> FALSE]
NoRes == Outcome("none", None)
NoProc == [done |-> FALSE, msg |-> NoMsg, called |-> FALSE, h |-> NoRes,
           args |-> << >>, written |-> << >>, raised |-> FALSE, ops |-> << >>]

\* TProcessor.__init__: the two references the instance keeps.
TProcessor_init(service, handler) == [_service |-> service, _handler |-> handler]

\* No evaluation of a payload method is in progress.
NoFn == [fn |-> "none"]

InitMain ==
    /\ seqid = 0
    /\ cpc = "idle"
    /\ ncalls = 0
    /\ callSeqids = << >>
    /\ creq = NoReq
    /\ cres = NoRes
    /\ cops = << >>
    /\ wire_cs = << >>
    /\ wire_sc = << >>
    /\ plast = NoProc
    /\ nread = 0
    /\ nwritten = 0
    /\ npeer = 0
    /\ pself = TProcessor_init("service", "handler")

Init ==
    /\ InitMain
    /\ fin = NoFn
    /\ fout = NoFn

(* ----------------------------------------------------------------- inputs *)
\* The i-th positional argument is the integer i; a named argument is 9.
\* A call has up to one positional argument more than the request schema has
\* fields (and at most MaxArgs), and names fields of the schema or "z", which
\* no schema has.
MinOf(a, b) == IF a < b THEN a ELSE b
PositionalArgs(api) ==
    {[i \in 1..n |-> I32(i)] :
        n \in 0..MinOf(MaxArgs, Cardinality(DOMAIN args_spec(api)) + 1)}
KwNames(api) == Names(args_spec(api)) \cup {"z"}
NamedArgs(api) == UNION {[K -> {I32(9)}] : K \in SUBSET KwNames(api)}

Returns == {None, I32(0), I32(5), EmptyList}
Raises == {Exc(k, 7) : k \in ExcKinds} \cup {Exc("E1", 8)}
HandlerOutcomes == {Outcome("return", v) : v \in Returns}
                       \cup {Outcome("raise", e) : e \in Raises}

\* What a peer can put in a struct: any subset of the field ids 0, 1, 2 and
\* the undeclared id 9, with an exception instance in the ids 1 and 2.
PeerValue(f) ==
    CASE f = 0 -> I32(5)
      [] f = 1 -> Exc("E1", 7)
      [] f = 2 -> Exc("E2", 8)
      [] OTHER -> I32(1)
PeerStructs == {[f \in D |-> PeerValue(f)] : D \in SUBSET {0, 1, 2, 9}}
PeerExceptions == {(2 :> I32(t)) : t \in {UNKNOWN_METHOD, INTERNAL_ERROR}}
                      \cup {(1 :> Str(1) @@ 2 :> I32(UNKNOWN_METHOD)), EmptyDict}

(* ---------------------------------------------------------------- actions *)
Quiet == wire_cs = << >> /\ wire_sc = << >>

\* client.<api>(*args, **kwargs) for a name the service does not have:
\* __getattr__ raises AttributeError and nothing is written.
ClientCallUnknown(api) ==
    /\ cpc = "idle" /\ Quiet /\ ncalls < MaxCalls
    /\ ~TClient_getattr(api)
    /\ ncalls' = ncalls + 1
    /\ creq' = [api |-> api, args |-> << >>, kwargs |-> EmptyDict, sent |-> FALSE]
    /\ cres' = Outcome("raise", Exc("AttributeError", 0))
    /\ cops' = << >>
    /\ plast' = NoProc
    /\ UNCHANGED <<fin, fout, pself, seqid, cpc, callSeqids, wire_cs, wire_sc, nread, nwritten, npeer>>

\* client.<api>(*args, **kwargs): _req up to the end of _send.  _seqid is
\* read by _send and assigned nowhere.
ClientCall(api, args, kwargs) ==
    /\ cpc = "idle" /\ Quiet /\ ncalls < MaxCalls
    /\ TClient_getattr(api)
    /\ ncalls' = ncalls + 1
    /\ creq' = [api |-> api, args |-> args, kwargs |-> kwargs, sent |-> TRUE]
    /\ cres' = NoRes
    /\ wire_cs' = Append(wire_cs, _send(api, _req_kwargs(api, args, kwargs), seqid))
    /\ callSeqids' = Append(callSeqids, seqid)
    /\ cops' = SendOps
    /\ cpc' = "sent"
    /\ plast' = NoProc
    /\ UNCHANGED <<fin, fout, pself, seqid, wire_sc, nread, nwritten, npeer>>

\* _recv: the rest of _req, once a reply is on the client's input.
ClientRecv ==
    /\ cpc = "sent" /\ wire_sc # << >>
    /\ \E o \in _recv(creq.api, Head(wire_sc)) : cres' = o
    /\ wire_sc' = Tail(wire_sc)
    /\ cops' = cops \o RecvOps
    /\ cpc' = "idle"
    /\ UNCHANGED <<fin, fout, pself, seqid, ncalls, callSeqids, creq, wire_cs, plast, nread,
                   nwritten, npeer>>

\* The processor raised out of process and wrote nothing: the transport ends
\* the client's blocked read with a stream failure.
ClientReadFails ==
    /\ cpc = "sent" /\ Quiet /\ plast.done /\ plast.raised
    /\ cres' = Outcome("raise", Exc("TTransportException", 0))
    /\ cops' = Append(cops, "read_message_begin")
    /\ cpc' = "idle"
    /\ UNCHANGED <<fin, fout, pself, seqid, ncalls, callSeqids, creq, wire_cs, wire_sc, plast,
                   nread, nwritten, npeer>>

\* TProcessor.process on the next inbound message.
Process ==
    /\ wire_cs # << >>
    /\ \E h \in HandlerOutcomes :
          LET r == process(Head(wire_cs), h)
          IN  /\ plast' = r
              /\ pself' = process_self(pself, Head(wire_cs), h)
              /\ wire_sc' = wire_sc \o r.written
              /\ nwritten' = nwritten + Len(r.written)
    /\ wire_cs' = Tail(wire_cs)
    /\ nread' = nread + 1
    /\ UNCHANGED <<fin, fout, seqid, cpc, ncalls, callSeqids, creq, cres, cops, npeer>>

\* A peer writes a message of its own on the processor's input.
PeerCall(msg) ==
    /\ cpc = "idle" /\ Quiet /\ npeer < MaxPeerCalls
    /\ npeer' = npeer + 1
    /\ wire_cs' = <<msg>>
    /\ creq' = NoReq
    /\ cres' = NoRes
    /\ cops' = << >>
    /\ plast' = NoProc
    /\ UNCHANGED <<fin, fout, pself, seqid, cpc, ncalls, callSeqids, wire_sc, nread, nwritten>>

\* The peer takes the reply to its message.
PeerRecv ==
    /\ cpc = "idle" /\ wire_sc # << >>
    /\ wire_sc' = Tail(wire_sc)
    /\ UNCHANGED <<fin, fout, pself, seqid, cpc, ncalls, callSeqids, creq, cres, cops, wire_cs,
                   plast, nread, nwritten, npeer>>

\* A server other than this processor answers the client's call.
PeerReply(msg) ==
    /\ cpc = "sent" /\ wire_cs # << >>
    /\ wire_cs' = Tail(wire_cs)
    /\ wire_sc' = <<msg>>
    /\ UNCHANGED <<fin, fout, pself, seqid, cpc, ncalls, callSeqids, creq, cres, cops, plast,
                   nread, nwritten, npeer>>

PeerCalls ==
    {Message(n, t, s, p) : n \in ApiNames, t \in {CALL, ONEWAY, REPLY},
                           s \in 0..MaxPeerSeqid,
                           p \in {EmptyDict, (2 :> I32(2) @@ 9 :> I32(1))}}

PeerReplies(api) ==
    {Message(api, t, 0, p) : t \in TMessageType \ {EXCEPTION}, p \in PeerStructs}
        \cup {Message("other", REPLY, 1, p) : p \in PeerStructs}
        \cup {Message(api, EXCEPTION, 0, p) : p \in PeerExceptions}

Next ==
    \/ \E api \in ApiNames : ClientCallUnknown(api)
    \/ \E api \in ApiNames :
          \E args \in PositionalArgs(api), kwargs \in NamedArgs(api) :
             ClientCall(api, args, kwargs)
    \/ ClientRecv
    \/ ClientReadFails
    \/ Process
    \/ \E msg \in PeerCalls : PeerCall(msg)
    \/ PeerRecv
    \/ \E msg \in PeerReplies(creq.api) : PeerReply(msg)

Spec == Init /\ [][Next]_vars

TypeOK ==
    /\ seqid \in Nat
    /\ cpc \in {"idle", "sent"}
    /\ ncalls \in 0..MaxCalls
    /\ Len(wire_cs) <= 1 /\ Len(wire_sc) <= 1

(* ----------------------------------------------------- shared predicates *)
Count(s, x) == Cardinality({i \in DOMAIN s : s[i] = x})
EndsWith(s, t) == Len(s) >= Len(t) /\ SubSeq(s, Len(s) - Len(t) + 1, Len(s)) = t

\* The client's call has ended (returned or raised) after a CALL was sent.
ClientDone == creq.sent /\ cpc = "idle" /\ cres.tag # "none"
\* The handler was invoked for the current message and raised.
HandlerRaised == plast.done /\ plast.called /\ plast.h.tag = "raise"
HandlerReturned == plast.done /\ plast.called /\ plast.h.tag = "return"

NonVoid(api) == 0 \in DOMAIN result_spec(api)
DeclaredSlots(api) == {f \in DOMAIN result_spec(api) : result_spec(api)[f].cls # ""}
\* The slots of the method whose exception class is exactly the kind of e,
\* and whether e is an instance of the class of some slot.
SlotsOfKind(api, e) == {f \in DeclaredSlots(api) : result_spec(api)[f].cls = e.kind}
Declared(api, e) ==
    \E f \in DeclaredSlots(api) : isinstance(e, result_spec(api)[f].cls)

IsWrite(op) == op \in {"write_message_begin", "write_struct", "write_message_end", "flush"}

(* --------------------------------------------------------------------- C1 *)
\* C1: the sequence ids of the CALL envelopes one client writes are 0, 1,
\* 2, ... in the order of the calls.
C1_SeqidsIncrease == \A i \in DOMAIN callSeqids : callSeqids[i] = i - 1

(* --------------------------------------------------------------------- C2 *)
\* C2 as stated: every inbound message handled by process, whatever the
\* handler does, gets exactly one outbound message.
C2_OneReplyPerMessage ==
    /\ nwritten = nread
    /\ plast.done => Len(plast.written) = 1

\* C2 amended: process reads one inbound message and writes at most one
\* outbound message before it ends: exactly one, closed by a flush, when it
\* returns, and none when the handler's error is re-raised out of it.
C2_AtMostOneReply ==
    /\ nwritten <= nread
    /\ plast.done =>
          /\ Count(plast.ops, "read_message_begin") = 1
          /\ plast.ops[1] = "read_message_begin"
          /\ Len(plast.written) = (IF plast.raised THEN 0 ELSE 1)
          /\ plast.raised => HandlerRaised
          /\ ~plast.raised => /\ EndsWith(plast.ops, SendOps)
                              /\ Count(plast.ops, "write_message_begin") = 1

\* Two messages were processed: one ended in a re-raised error without a
\* reply, the last one was answered.
C2_Witness ==
    /\ nread = 2 /\ nwritten = 1
    /\ plast.done /\ ~plast.raised /\ Len(plast.written) = 1

(* --------------------------------------------------------------------- C3 *)
\* C3: when the handler raises an instance of the exception kind of a
\* declared slot, of a void or of a non-void method, the processor sends a
\* REPLY carrying the instance in that slot and nothing else, and the client
\* call raises the same value.
C3_DeclaredExceptionDelivered ==
    HandlerRaised =>
       \A f \in SlotsOfKind(plast.msg.name, plast.h.val) :
          /\ plast.written = <<Message(plast.msg.name, REPLY, plast.msg.seqid,
                                       (f :> plast.h.val))>>
          /\ ClientDone => cres = Outcome("raise", plast.h.val)

(* --------------------------------------------------------------------- C4 *)
\* C4: when the handler raises an error that is an instance of no declared
\* exception slot of the method, process writes nothing and the error
\* leaves process.
C4_UndeclaredPropagates ==
    (HandlerRaised /\ ~Declared(plast.msg.name, plast.h.val)) =>
       /\ plast.raised
       /\ plast.written = << >>
       /\ \A i \in DOMAIN plast.ops : ~IsWrite(plast.ops[i])
       /\ wire_sc = << >>

\* The handler of div, which declares E1 and E2, raised a ValueError.
C4_Witness ==
    /\ HandlerRaised /\ plast.msg.name = "div" /\ plast.h.val.kind = "ValueError"
    /\ plast.raised

(* --------------------------------------------------------------------- C5 *)
RaisedAppExc(o, code) ==
    /\ o.tag = "raise" /\ IsAppExc(o.val)
    /\ o.val.dict.type = I32(code)

\* C5 as stated: a client call to a name the service does not have sends a
\* CALL and ends with TApplicationException UNKNOWN_METHOD.
C5_UnknownRaisesAppExc ==
    (creq.api # "" /\ creq.api \notin ClientMethods /\ cpc = "idle") =>
       /\ creq.sent
       /\ RaisedAppExc(cres, UNKNOWN_METHOD)

\* C5 amended: a call to a name outside the client's service description
\* raises AttributeError and writes nothing; a call to a method the client's
\* service has and the processor's service lacks sends a CALL, reads the
\* EXCEPTION reply and raises TApplicationException UNKNOWN_METHOD with the
\* text 'Unknown method'.
C5_UnknownMethod ==
    /\ (creq.api # "" /\ creq.api \notin ClientMethods) =>
          /\ ~creq.sent /\ cops = << >> /\ Quiet /\ ~plast.done
          /\ cres = Outcome("raise", Exc("AttributeError", 0))
    /\ (ClientDone /\ plast.done /\ creq.api \notin ServerMethods) =>
          /\ plast.written[1].mtype = EXCEPTION
          /\ cops = SendOps \o RecvOps
          /\ RaisedAppExc(cres, UNKNOWN_METHOD)
          /\ TApplicationException_str(cres.val) = "Unknown method"

\* The client called extra, which the processor's service does not have,
\* and the call has ended with the processor's reply.
C5_Witness ==
    /\ ClientDone /\ plast.done /\ creq.api = "extra"
    /\ RaisedAppExc(cres, UNKNOWN_METHOD)

(* --------------------------------------------------------------------- C6 *)
\* C6: for an inbound message whose method is not in the service, the
\* processor calls no handler, skips the struct, consumes message-end and
\* writes the EXCEPTION envelope with the same name and sequence id, an
\* UNKNOWN_METHOD payload and a flush; it writes no REPLY.
C6_UnknownMethodReply ==
    (plast.done /\ plast.msg.name \notin ServerMethods) =>
       /\ ~plast.called /\ ~plast.raised
       /\ plast.ops = <<"read_message_begin", "skip", "read_message_end">> \o SendOps
       /\ plast.written = <<Message(plast.msg.name, EXCEPTION, plast.msg.seqid,
                                    (2 :> I32(UNKNOWN_METHOD)))>>

\* A peer's message for the method nope with sequence id 1 was processed.
C6_Witness ==
    /\ plast.done /\ plast.msg.name = "nope" /\ plast.msg.seqid = 1
    /\ Len(plast.written) = 1

(* --------------------------------------------------------------------- C7 *)
\* The fields of the reply that the method's response schema declares.
ReplyFields(api, msg) == DOMAIN msg.payload \cap DOMAIN result_spec(api)

\* C7: when _recv reads, for a non-void method, a reply that is not an
\* EXCEPTION and has neither the success slot nor a declared exception
\* slot, the call raises TApplicationException MISSING_RESULT.
C7_MissingResult ==
    [][(/\ cpc = "sent" /\ cpc' = "idle" /\ wire_sc # << >>
        /\ NonVoid(creq.api)
        /\ Head(wire_sc).mtype # EXCEPTION
        /\ ReplyFields(creq.api, Head(wire_sc)) = {})
       => cres' = Outcome("raise", TApplicationException(MISSING_RESULT, None))]_vars

\* The handler of div returned None, the processor replied, and the client
\* call ended with MISSING_RESULT.
C7_Witness ==
    /\ ClientDone /\ creq.api = "div"
    /\ HandlerReturned /\ plast.h.val = None
    /\ RaisedAppExc(cres, MISSING_RESULT)

(* --------------------------------------------------------------------- C8 *)
\* C8: for a method with an empty response schema whose handler returns,
\* the REPLY payload has no field at all (so no success field) and the
\* client call returns None.
C8_VoidReturnsNothing ==
    (HandlerReturned /\ result_spec(plast.msg.name) = EmptySpec) =>
       /\ plast.written = <<Message(plast.msg.name, REPLY, plast.msg.seqid, EmptyDict)>>
       /\ ClientDone => cres = Outcome("return", None)

\* The client's call of ping was handled and has returned.
C8_Witness ==
    /\ ClientDone /\ creq.api = "ping" /\ HandlerReturned
    /\ cres = Outcome("return", None)

(* --------------------------------------------------------------------- C9 *)
\* C9: for a non-void method whose handler returns a value v other than
\* None, falsy or not, the REPLY payload is success = v and the client call
\* returns v.
C9_ValueReturned ==
    (HandlerReturned /\ NonVoid(plast.msg.name) /\ plast.h.val # None) =>
       /\ plast.written = <<Message(plast.msg.name, REPLY, plast.msg.seqid,
                                    (0 :> plast.h.val))>>
       /\ ClientDone => cres = Outcome("return", plast.h.val)

\* The handler of add returned 0 and the client call returned 0.
C9_Witness ==
    /\ ClientDone /\ creq.api = "add" /\ HandlerReturned
    /\ plast.h.val = I32(0) /\ cres = Outcome("return", I32(0))

(* -------------------------------------------------------------------- C10 *)
\* The call has more positional arguments than the request schema has
\* fields, or names a field the request schema does not have.
BadArguments ==
    /\ creq.api \in ClientMethods
    /\ \/ Len(creq.args) > Cardinality(DOMAIN args_spec(creq.api))
       \/ \E k \in DOMAIN creq.kwargs : k \notin Names(args_spec(creq.api))

\* C10: a call with such arguments is rejected and no CALL is written.
C10_BadArgumentsRejected == BadArguments => (~creq.sent /\ cops = << >>)

(* -------------------------------------------------------------------- C11 *)
\* C11: when the envelope _recv reads has the message type CALL or ONEWAY,
\* the call fails with TApplicationException INVALID_MESSAGE_TYPE instead of
\* treating the payload as a response.
C11_BadMessageTypeRejected ==
    [][(/\ cpc = "sent" /\ cpc' = "idle" /\ wire_sc # << >>
        /\ Head(wire_sc).mtype \in {CALL, ONEWAY})
       => RaisedAppExc(cres', INVALID_MESSAGE_TYPE)]_vars

(* -------------------------------------------------------------------- C12 *)
\* C12: every message process writes, REPLY or EXCEPTION, has the method
\* name and the sequence id of the inbound message it answers.
C12_EchoesNameAndSeqid ==
    plast.done =>
       \A i \in DOMAIN plast.written :
          /\ plast.written[i].name = plast.msg.name
          /\ plast.written[i].seqid = plast.msg.seqid
          /\ plast.written[i].mtype =
                (IF plast.msg.name \in ServerMethods THEN REPLY ELSE EXCEPTION)

\* A message of a peer for div with sequence id 1 was answered by a REPLY.
C12_Witness ==
    /\ plast.done /\ plast.msg.name = "div" /\ plast.msg.seqid = 1
    /\ Len(plast.written) = 1 /\ plast.written[1].mtype = REPLY

(* -------------------------------------------------------------------- C14 *)
\* The position of the field id f in ascending field id order.
Rank(spec, f) == Cardinality({g \in DOMAIN spec : g <= f})

\* The struct the claim expects for a call: a field named in kwargs has the
\* named value, otherwise the i-th field has the i-th positional argument.
ExpectedRequest(api, args, kwargs) ==
    LET spec == args_spec(api)
        bound == {f \in DOMAIN spec : \/ spec[f].name \in DOMAIN kwargs
                                      \/ Rank(spec, f) <= Len(args)}
    IN  [f \in bound |-> IF spec[f].name \in DOMAIN kwargs
                         THEN kwargs[spec[f].name]
                         ELSE args[Rank(spec, f)]]

\* C14: the request payload sent binds the i-th positional argument to the
\* field with the i-th smallest id and a named argument to the field of
\* that name, the named value winning when a field gets both.
C14_NamedOverridesPositional ==
    (creq.sent /\ cpc = "sent" /\ wire_cs # << >>) =>
       Head(wire_cs).payload = ExpectedRequest(creq.api, creq.args, creq.kwargs)

(* -------------------------------------------------------------------- C15 *)
\* The declared exception slots of the method that the error e matches.
MatchingSlots(api, e) ==
    {f \in DeclaredSlots(api) : isinstance(e, result_spec(api)[f].cls)}

\* C15: when the handler raises an error that matches several declared
\* exception slots, the REPLY carries it in the matching slot with the
\* smallest field id and in no other slot.
C15_FirstMatchingSlot ==
    (HandlerRaised /\ Cardinality(MatchingSlots(plast.msg.name, plast.h.val)) >= 2) =>
       plast.written = <<Message(plast.msg.name, REPLY, plast.msg.seqid,
                                 (Min(MatchingSlots(plast.msg.name, plast.h.val))
                                     :> plast.h.val))>>

(* -------------------------------------------------------------------- C16 *)
\* The declared exception slots of the method present in the reply.
PresentThrows(api, msg) == DOMAIN msg.payload \cap DeclaredSlots(api)

\* C16: when the reply has no success value and two or more declared
\* exception slots, the call raises the exception of the present slot with
\* the smallest field id.
C16_FirstPresentSlotRaised ==
    [][(/\ cpc = "sent" /\ cpc' = "idle" /\ wire_sc # << >>
        /\ Head(wire_sc).mtype # EXCEPTION
        /\ 0 \notin DOMAIN Head(wire_sc).payload
        /\ Cardinality(PresentThrows(creq.api, Head(wire_sc))) >= 2)
       => LET f == Min(PresentThrows(creq.api, Head(wire_sc)))
          IN  cres' = Outcome("raise", decode(result_spec(creq.api)[f],
                                              Head(wire_sc).payload[f]))]_vars

(* -------------------------------------------------------------------- C17 *)
IsPrefix(s, t) == Len(s) <= Len(t) /\ SubSeq(t, 1, Len(s)) = s

\* The stream operations of one complete call, in the claimed order.
CallOrder ==
    <<"write_message_begin", "write_struct", "write_message_end", "flush",
      "read_message_begin", "read_struct", "read_message_end">>

\* The call ended because the stream failed under read_message_begin.
StreamFailed == cres = Outcome("raise", Exc("TTransportException", 0))

\* C17: the stream operations of a client call are a prefix of: write the
\* envelope, the payload, message-end, flush, read the envelope, the payload,
\* message-end; the call returns a value or raises from a reply only once
\* all of them are done.
C17_CallOrder ==
    /\ IsPrefix(cops, CallOrder)
    /\ (creq.sent /\ cpc = "sent") => cops = SubSeq(CallOrder, 1, 4)
    /\ (ClientDone /\ ~StreamFailed) => cops = CallOrder

\* The client's call of div has returned a value read from a reply.
C17_Witness ==
    /\ ClientDone /\ creq.api = "div" /\ cres.tag = "return"
    /\ cops = CallOrder

(* -------------------------------------------------------------------- C19 *)
\* C19: a REPLY payload written by process has at most one slot, and when
\* the handler raised, that slot is not the success slot.
C19_SlotsExclusive ==
    plast.done =>
       \A i \in DOMAIN plast.written :
          plast.written[i].mtype = REPLY =>
             /\ Cardinality(DOMAIN plast.written[i].payload) <= 1
             /\ HandlerRaised => 0 \notin DOMAIN plast.written[i].payload

\* The handler of div raised an E12, which matches both declared slots, and
\* the REPLY was written.
C19_Witness ==
    /\ HandlerRaised /\ plast.msg.name = "div" /\ plast.h.val.kind = "E12"
    /\ Len(plast.written) = 1 /\ plast.written[1].mtype = REPLY

(* -------------------------------------------------------------------- C18 *)
IsRead(op) == op \in {"read_message_begin", "read_struct", "skip", "read_message_end"}

\* C18: process leaves the service and handler references of the processor
\* as __init__ set them, and in every outcome it reads the inbound stream
\* through message-end of the current message and no further.
C18_ProcessorStateless ==
    /\ pself = TProcessor_init("service", "handler")
    /\ Len(wire_cs) <= 1
    /\ plast.done =>
          /\ Len(plast.ops) >= 3
          /\ plast.ops[1] = "read_message_begin"
          /\ plast.ops[2] \in {"read_struct", "skip"}
          /\ plast.ops[3] = "read_message_end"
          /\ \A i \in DOMAIN plast.ops : i > 3 => ~IsRead(plast.ops[i])

\* The second message the processor handled ended in a re-raised handler
\* error, after a first one was handled.
C18_Witness ==
    /\ nread = 2 /\ plast.done /\ plast.raised
    /\ pself = TProcessor_init("service", "handler")

(* ------------------------------------------ evaluation of payload methods *)
\* A second specification: one method of a payload (__str__, __eq__ or
\* __ne__) is evaluated on operands drawn at the start.
StrInputs ==
    {TApplicationException(t, m) : t \in -1..MaxCode, m \in {None, Str(0), Str(1)}}

ComparedPayloads ==
    {TPayload_init(Cls("add", "args"), args_spec("add")),
     setattr(TPayload_init(Cls("add", "args"), args_spec("add")), "a", I32(1)),
     TPayload_init(Cls("add", "result"), result_spec("add")),
     setattr(TPayload_init(Cls("add", "result"), result_spec("add")), "success", I32(1)),
     TPayload_init(Cls("extra", "result"), result_spec("extra")),
     TApplicationException(UNKNOWN, None)}
ComparedOperands == ComparedPayloads \cup {I32(1)}

FnInput(fn, a, b) == [fn |-> fn, a |-> a, b |-> b]
FnPending(depth) == [tag |-> "pending", depth |-> depth]
FnReturn(v) == [tag |-> "return", val |-> v]
FnRaise(e) == [tag |-> "raise", val |-> e]

PureInputs ==
    {FnInput("str", x, None) : x \in StrInputs}
        \cup {FnInput(fn, a, b) : fn \in {"eq", "ne"}, a \in ComparedPayloads,
                                  b \in ComparedOperands}

InitPure ==
    /\ InitMain
    /\ fin \in PureInputs
    /\ fout = FnPending(0)

mainvars == <<seqid, cpc, ncalls, callSeqids, creq, cres, cops, wire_cs, wire_sc,
              plast, nread, nwritten, npeer, pself>>

\* str(x) for a TApplicationException x.
ApplyStr ==
    /\ fin.fn = "str" /\ fout.tag = "pending"
    /\ fout' = FnReturn(TApplicationException_str(fin.a))
    /\ UNCHANGED <<fin, mainvars>>

\* a == b
ApplyEq ==
    /\ fin.fn = "eq" /\ fout.tag = "pending"
    /\ fout' = FnReturn(TPayload_eq(fin.a, fin.b))
    /\ UNCHANGED <<fin, mainvars>>

\* a != b: the body of __ne__ evaluates self != other, which enters __ne__
\* again, one frame deeper.
NeCall ==
    /\ fin.fn = "ne" /\ fout.tag = "pending" /\ fout.depth < MaxDepth
    /\ TPayload_ne_calls(fin.a, fin.b) = "__ne__"
    /\ fout' = FnPending(fout.depth + 1)
    /\ UNCHANGED <<fin, mainvars>>

\* The interpreter ends the nesting at its recursion limit.
NeOverflow ==
    /\ fin.fn = "ne" /\ fout.tag = "pending" /\ fout.depth = MaxDepth
    /\ fout' = FnRaise("RuntimeError")
    /\ UNCHANGED <<fin, mainvars>>

NextPure == ApplyStr \/ ApplyEq \/ NeCall \/ NeOverflow

SpecPure == InitPure /\ [][NextPure]_vars

(* -------------------------------------------------------------------- C13 *)
StrDone == fin.fn = "str" /\ fout.tag = "return"
Fallback == "Default (unknown) TApplicationException"
TableText(t) ==
    CASE t = UNKNOWN_METHOD -> "Unknown method"
      [] t = INVALID_MESSAGE_TYPE -> "Invalid message type"
      [] t = WRONG_METHOD_NAME -> "Wrong method name"
      [] t = BAD_SEQUENCE_ID -> "Bad sequence ID"
      [] t = MISSING_RESULT -> "Missing result"
      [] OTHER -> Fallback
InTable(t) == t \in {UNKNOWN_METHOD, INVALID_MESSAGE_TYPE, WRONG_METHOD_NAME,
                     BAD_SEQUENCE_ID, MISSING_RESULT}

\* C13 as stated: the text is the message whenever a message is set; with no
\* message it is the table's text, and the fallback text comes only from
\* UNKNOWN and from codes outside 0..7.
C13_TextAsStated ==
    StrDone =>
       LET m == fin.a.dict.message
           t == fin.a.dict.type.data
       IN  /\ m # None => fout.val = StrText(m.data)
           /\ (m = None /\ InTable(t)) => fout.val = TableText(t)
           /\ m = None => (fout.val = Fallback <=> (t = UNKNOWN \/ t \notin 0..7))

\* C13 amended: the text is the message when the message is set and not
\* empty; otherwise it is the table's text for the five codes of the table
\* and the fallback text for every other code: UNKNOWN, INTERNAL_ERROR,
\* PROTOCOL_ERROR and the codes outside 0..7.
C13_TextOfException ==
    StrDone =>
       LET m == fin.a.dict.message
           t == fin.a.dict.type.data
       IN  /\ (m # None /\ m # Str(0)) => fout.val = StrText(m.data)
           /\ (m \in {None, Str(0)} /\ InTable(t)) => fout.val = TableText(t)
           /\ (m \in {None, Str(0)} /\ ~InTable(t)) => fout.val = Fallback

\* str was evaluated for INTERNAL_ERROR without a message.
C13_Witness ==
    /\ StrDone /\ fin.a.dict.type = I32(INTERNAL_ERROR) /\ fin.a.dict.message = None
    /\ fout.val = Fallback

(* -------------------------------------------------------------------- C20 *)
\* C20: a != b ends by returning the negation of a == b.
C20_NeNegatesEq ==
    (fin.fn = "ne" /\ fout.tag # "pending") =>
       /\ fout.tag = "return"
       /\ fout.val = ~TPayload_eq(fin.a, fin.b)

====
